---- MODULE Spec2Model ----
(***************************************************************************)
(* Chunked storage of large files in the Notion driver: the chunked upload *)
(* (putChunkedFile), Link, and the range reader over the chunk list        *)
(* (ChunkedRangeReadCloser.RangeRead, ChunkedReader.Read / Close).         *)
(*                                                                         *)
(* Sizes and offsets are bytes.  A byte of a logical file is identified by *)
(* its logical offset; the remote object of a chunk holds the bytes        *)
(* StartOffset .. EndOffset-1 of the file.  File and chunk sizes are drawn *)
(* from small sets; the chunk size of the upload is a parameter of the     *)
(* upload operator.                                                        *)
(***************************************************************************)
EXTENDS Integers, Sequences, FiniteSets, TLC

\* ---------------------------------------------------------------- bounds
MaxFileSize == 3
MaxChunk == 2
MaxBuf == 2
MaxFiles == 1
MaxPutSize == 11
MaxDirs == 2
MaxTreeFiles == 2

\* ------------------------------------------------------ program constants
\* maxRetries := 3
maxRetries == 3

\* MaxChunkSize = 4.5 * 1024 * 1024 * 1024 and ChunkThreshold =
\* 5 * 1024 * 1024 * 1024 bytes, in units of 512 MiB (2^29 bytes).  Put and
\* the specification SpecPut measure sizes in this unit; sums, comparisons
\* and the rounded-up division of multiples of the unit are those of the
\* byte values.
MaxChunkSize == 9
ChunkThreshold == 10

VARIABLES
    dirs,         \* table Directory: sequence of records, ID = position
    files,        \* table File: sequence of records, ID = position
    dbChunks,     \* table FileChunk: sequence of records
    putLast,      \* outcome of the last chunked upload
    rangeReadCloser, \* the ChunkedRangeReadCloser handed out by Link
    reader,       \* the ChunkedReader returned by RangeRead
    delivered,    \* logical offsets of the bytes handed to the caller, in order
    openCount,    \* remote reads opened by the reader and not yet closed
    clean,        \* no remote read failed mid-stream or deviated from its range
    entries,      \* chunk indices entered by the reads of SpecLive, in order
    last          \* what the last call did and returned

vars == <<dirs, files, dbChunks, putLast, rangeReadCloser, reader, delivered,
          openCount, clean, entries, last>>

\* --------------------------------------------------------------- helpers
max(a, b) == IF a > b THEN a ELSE b

min(a, b) == IF a < b THEN a ELSE b

Nil == [kind |-> "nil"]

NoReader == [kind |-> "none"]

NoCloser == [kind |-> "none"]

\* what a call left behind: the fields a call does not set keep these values
NoCall(op) ==
    [op |-> op, req |-> <<0, 0>>, n |-> 0, err |-> "nil", errChunk |-> -1,
     errRetries |-> 0, entered |-> FALSE, chunk |-> -1, script |-> <<>>,
     body |-> "none", rres |-> "none", resolves |-> 0, opens |-> 0, used |-> <<>>,
     rejected |-> 0, closedRejected |-> 0,
     closes |-> 0, sleeps |-> <<>>, range |-> <<-1, -1>>,
     header |-> <<-1, -1>>, buf |-> -1, bytes |-> <<>>,
     isDir |-> FALSE, obj |-> 0, dst |-> 0, made |-> 0, copies |-> <<>>]

\* the logical offsets lo, lo+1, .., hi-1 as a sequence
Span(lo, hi) == [k \in 1..max(hi - lo, 0) |-> lo + k - 1]

\* the root directory, created when the driver is initialised: ID 1, no
\* parent (ParentID 0 stands for NULL)
RootID == 1

RootDir == [ParentID |-> 0, Deleted |-> FALSE]

\* File.NotionPageID of a record created without one
NoPage == <<>>

\* ------------------------------------------------------ chunked upload
\* the chunk count rounded down
chunkCount_Floor(fileSize, maxChunkSize) == fileSize \div maxChunkSize

\* chunkCount := (fileSize + MaxChunkSize - 1) / MaxChunkSize
chunkCount(fileSize, maxChunkSize) == (fileSize + maxChunkSize - 1) \div maxChunkSize

\* the bounds of chunk i computed in the upload loop
startOffset(i, maxChunkSize) == i * maxChunkSize

\* the end of chunk i without the clamp to the file size
endOffset_NoClamp(i, fileSize, maxChunkSize) ==
    startOffset(i, maxChunkSize) + maxChunkSize

endOffset(i, fileSize, maxChunkSize) ==
    IF startOffset(i, maxChunkSize) + maxChunkSize > fileSize
    THEN fileSize
    ELSE startOffset(i, maxChunkSize) + maxChunkSize

\* the page CreateDatabasePage makes for chunk i of a file
pageID(fileID, i) == <<fileID, i>>

\* the checksum UploadAndUpdateFilePut returns for the bytes [lo, hi) of a file
hash1(fileID, lo, hi) == <<fileID, lo, hi>>

\* the chunk record that takes the chunk size for the size of every chunk
FileChunk_FullSize(fileID, i, fileSize, maxChunkSize) ==
    [FileID       |-> fileID,
     ChunkIndex   |-> i,
     ChunkSize    |-> maxChunkSize,
     StartOffset  |-> startOffset(i, maxChunkSize),
     EndOffset    |-> endOffset(i, fileSize, maxChunkSize),
     NotionPageID |-> pageID(fileID, i),
     SHA1         |-> hash1(fileID, startOffset(i, maxChunkSize),
                            endOffset(i, fileSize, maxChunkSize)),
     Deleted      |-> FALSE]

FileChunk(fileID, i, fileSize, maxChunkSize) ==
    [FileID       |-> fileID,
     ChunkIndex   |-> i,
     ChunkSize    |-> endOffset(i, fileSize, maxChunkSize) - startOffset(i, maxChunkSize),
     StartOffset  |-> startOffset(i, maxChunkSize),
     EndOffset    |-> endOffset(i, fileSize, maxChunkSize),
     NotionPageID |-> pageID(fileID, i),
     SHA1         |-> hash1(fileID, startOffset(i, maxChunkSize),
                            endOffset(i, fileSize, maxChunkSize)),
     Deleted      |-> FALSE]

\* a cancellation check that never sees the signal
IsCanceled_Never(fault, i) == FALSE

\* utils.IsCanceled(ctx) at the head of iteration i.  The context is
\* cancelled once and stays so: fault "cancel" at k raises the signal before
\* the check of iteration k, fault "cancelMid" at k raises it while chunk k
\* is being uploaded.
IsCanceled(fault, i) ==
    \/ fault.kind = "cancel" /\ fault.at <= i
    \/ fault.kind = "cancelMid" /\ fault.at < i

\* a loop step that passes over one chunk index
nextIndex_Skip(i) == i + 2

\* i++ of the upload loop
nextIndex(i) == i + 1

\* The upload loop, chunk by chunk.  fault = [kind, at]: the collaborator
\* that fails ("page", "upload") and the chunk index at which it does, or the
\* moment the context is cancelled; kind "none" lets every chunk through.
\* pages and uploads list the chunk indices for which a page was created and
\* an upload completed, in the order of the calls.
RECURSIVE uploadLoop(_, _, _, _, _, _)
uploadLoop(i, fileID, fileSize, maxChunkSize, fault, acc) ==
    IF i >= chunkCount(fileSize, maxChunkSize)
    THEN [err |-> "nil", chunks |-> acc.chunks, pages |-> acc.pages, uploads |-> acc.uploads]
    ELSE IF IsCanceled(fault, i)
    THEN [err |-> "canceled", chunks |-> acc.chunks, pages |-> acc.pages, uploads |-> acc.uploads]
    ELSE IF fault.kind = "page" /\ fault.at = i
    THEN [err |-> "createPage", chunks |-> acc.chunks, pages |-> acc.pages, uploads |-> acc.uploads]
    ELSE IF fault.kind = "upload" /\ fault.at = i
    THEN [err |-> "upload", chunks |-> acc.chunks,
          pages |-> Append(acc.pages, i), uploads |-> acc.uploads]
    ELSE uploadLoop(nextIndex(i), fileID, fileSize, maxChunkSize, fault,
                    [chunks  |-> Append(acc.chunks, FileChunk(fileID, i, fileSize, maxChunkSize)),
                     pages   |-> Append(acc.pages, i),
                     uploads |-> Append(acc.uploads, i)])

PutFaults(fileSize, maxChunkSize) ==
    {[kind |-> k, at |-> 0] : k \in {"none", "cache", "createFile", "saveChunks"}}
    \cup {[kind |-> k, at |-> i] : k \in {"cancel", "cancelMid", "page", "upload"},
                                    i \in 0..(chunkCount(fileSize, maxChunkSize) - 1)}

\* a failing return of putChunkedFile after the file record was created that
\* saves the chunk records made so far
abort_SavePartial(fs, cs, f, res, err) ==
    [files |-> Append(fs, f), dbChunks |-> cs \o res.chunks,
     putLast |-> res @@ [err |-> err, obj |-> 0, objSize |-> 0]]

\* a failing return of putChunkedFile after the file record was created:
\* return nil, err, with nothing undone and no chunk record saved
abort(fs, cs, f, res, err) ==
    [files |-> Append(fs, f), dbChunks |-> cs,
     putLast |-> res @@ [err |-> err, obj |-> 0, objSize |-> 0]]

\* putChunkedFile on the tables fs (File) and cs (FileChunk): the file
\* record is created first, the chunks are stored one after the other, the
\* chunk records are saved in one batch at the end.  Gives the tables after
\* the call and its outcome.
putChunkedFile(fs, cs, fileSize, maxChunkSize, fault, dirID) ==
    LET fileID == Len(fs) + 1
        f == [Size |-> fileSize, IsChunked |-> TRUE, ChunkSize |-> maxChunkSize,
              Deleted |-> FALSE, DirectoryID |-> dirID, NotionPageID |-> NoPage]
        run == uploadLoop(0, fileID, fileSize, maxChunkSize, fault,
                          [chunks |-> <<>>, pages |-> <<>>, uploads |-> <<>>])
        early == [via |-> "putChunkedFile",
                  fileSize |-> fileSize, maxChunkSize |-> maxChunkSize, fault |-> fault,
                  chunks |-> <<>>, pages |-> <<>>, uploads |-> <<>>, obj |-> 0, objSize |-> 0]
        res == [via |-> "putChunkedFile",
                fileSize |-> fileSize, maxChunkSize |-> maxChunkSize, fault |-> fault,
                chunks |-> run.chunks, pages |-> run.pages, uploads |-> run.uploads]
    IN  IF fault.kind = "cache"
        THEN [files |-> fs, dbChunks |-> cs, putLast |-> early @@ [err |-> "cache"]]
        ELSE IF fault.kind = "createFile"
        THEN [files |-> fs, dbChunks |-> cs, putLast |-> early @@ [err |-> "createFile"]]
        ELSE IF run.err # "nil"
        THEN abort(fs, cs, f, res, run.err)
        ELSE IF fault.kind = "saveChunks"
        THEN abort(fs, cs, f, res, "saveChunks")
        ELSE [files |-> Append(fs, f), dbChunks |-> cs \o run.chunks,
              putLast |-> res @@ [err |-> "nil", obj |-> fileID, objSize |-> fileSize]]

NoFault == [kind |-> "none", at |-> 0]

\* a file of 10_000_000_000 bytes in chunks of 4_500_000_000 bytes, in
\* units of 100_000_000 bytes
ScenarioInput == <<100, 45>>

\* the file sizes and chunk sizes the chunked upload is run on
UploadInputs == ((1..MaxFileSize) \X (1..MaxChunk)) \cup {ScenarioInput}

PutChunkedFile ==
    /\ Len(files) < MaxFiles
    /\ \E in \in UploadInputs :
         \E fileSize \in {in[1]}, maxChunkSize \in {in[2]} :
         \E fault \in PutFaults(fileSize, maxChunkSize) :
            LET out == putChunkedFile(files, dbChunks, fileSize, maxChunkSize, fault, RootID)
            IN  /\ files' = out.files
                /\ dbChunks' = out.dbChunks
                /\ putLast' = out.putLast
    /\ last' = NoCall("Put")
    /\ UNCHANGED <<dirs, rangeReadCloser, reader, delivered, openCount, clean, entries>>

\* ------------------------------------------------------------------- Put
SingleFaults == {[kind |-> k, at |-> 0] : k \in {"none", "page", "upload", "createFile"}}

\* putSingleFile: one page, one upload, then the file record
putSingleFile(fs, cs, fileSize, fault, dirID) ==
    LET fileID == Len(fs) + 1
        f == [Size |-> fileSize, IsChunked |-> FALSE, ChunkSize |-> 0, Deleted |-> FALSE,
              DirectoryID |-> dirID, NotionPageID |-> pageID(fileID, 0)]
        res == [via |-> "putSingleFile", fileSize |-> fileSize, maxChunkSize |-> 0,
                fault |-> fault, chunks |-> <<>>]
    IN  IF fault.kind = "page"
        THEN [files |-> fs, dbChunks |-> cs,
              putLast |-> res @@ [err |-> "createPage", obj |-> 0, objSize |-> 0,
                                  pages |-> <<>>, uploads |-> <<>>]]
        ELSE IF fault.kind = "upload"
        THEN [files |-> fs, dbChunks |-> cs,
              putLast |-> res @@ [err |-> "upload", obj |-> 0, objSize |-> 0,
                                  pages |-> <<0>>, uploads |-> <<>>]]
        ELSE IF fault.kind = "createFile"
        THEN [files |-> fs, dbChunks |-> cs,
              putLast |-> res @@ [err |-> "saveFile", obj |-> 0, objSize |-> 0,
                                  pages |-> <<0>>, uploads |-> <<0>>]]
        ELSE [files |-> Append(fs, f), dbChunks |-> cs,
              putLast |-> res @@ [err |-> "nil", obj |-> fileID, objSize |-> fileSize,
                                  pages |-> <<0>>, uploads |-> <<0>>]]

\* the routing test that also chunks a file of exactly the threshold
needsChunking_AtOrAbove(fileSize) == fileSize >= ChunkThreshold

\* fileSize > ChunkThreshold
needsChunking(fileSize) == fileSize > ChunkThreshold

\* What the lookup of a file of the same name in the directory gives: the
\* record found, no record, or a database error.  Names are not modelled:
\* any file of the directory that is not deleted may be the one of that name.
Lookups(fs, dirID) ==
    {[kind |-> "notFound", id |-> 0], [kind |-> "dbError", id |-> 0]}
    \cup {[kind |-> "found", id |-> id] :
             id \in {k \in 1..Len(fs) : ~fs[k].Deleted /\ fs[k].DirectoryID = dirID}}

\* the return for a name that exists, with the size of the new input
returnExisting_NewSize(fs, cs, existing, res) ==
    [files |-> fs, dbChunks |-> cs,
     putLast |-> res @@ [err |-> "nil", obj |-> existing.id, objSize |-> res.fileSize]]

\* the return of Put when the lookup found a file of that name: the object
\* of the record found, the tables as they were
returnExisting(fs, cs, existing, res) ==
    [files |-> fs, dbChunks |-> cs,
     putLast |-> res @@ [err |-> "nil", obj |-> existing.id,
                         objSize |-> fs[existing.id].Size]]

\* Notion.Put on the tables fs and cs
Put(fs, cs, existing, fileSize, fault, dirID) ==
    LET res == [via |-> "existing", fileSize |-> fileSize, maxChunkSize |-> 0,
                fault |-> fault, chunks |-> <<>>, pages |-> <<>>, uploads |-> <<>>]
    IN  IF existing.kind = "found"
        THEN returnExisting(fs, cs, existing, res)
        ELSE IF existing.kind = "dbError"
        THEN [files |-> fs, dbChunks |-> cs,
              putLast |-> res @@ [err |-> "checkExisting", obj |-> 0, objSize |-> 0]]
        ELSE IF needsChunking(fileSize)
        THEN putChunkedFile(fs, cs, fileSize, MaxChunkSize, fault, dirID)
        ELSE putSingleFile(fs, cs, fileSize, fault, dirID)

\* the directories a call may be given: those that are not deleted
LiveDirs(ds) == {d \in 1..Len(ds) : ~ds[d].Deleted}

\* A Put call of a file of one of sizes into a directory that is not
\* deleted, at most limit files being stored.  faulty: the name may exist
\* and a collaborator or the lookup may fail; otherwise the name is new and
\* nothing fails.
DoPutWith(sizes, limit, faulty) ==
    /\ \E fileSize \in sizes, dirID \in LiveDirs(dirs) :
       \E existing \in {x \in Lookups(files, dirID) : faulty \/ x.kind = "notFound"} :
         /\ existing.kind = "notFound" => Len(files) < limit
         /\ \E fault \in (IF existing.kind # "notFound" \/ ~faulty THEN {NoFault}
                           ELSE IF needsChunking(fileSize)
                           THEN PutFaults(fileSize, MaxChunkSize)
                           ELSE SingleFaults) :
              LET out == Put(files, dbChunks, existing, fileSize, fault, dirID)
              IN  /\ files' = out.files
                  /\ dbChunks' = out.dbChunks
                  /\ putLast' = out.putLast
    /\ last' = NoCall("Put")
    /\ UNCHANGED <<dirs, rangeReadCloser, reader, delivered, openCount, clean, entries>>

DoPut == DoPutWith(0..MaxPutSize, MaxFiles, TRUE)

\* ------------------------------------------------------------------ Link
\* the chunk records of a file, not deleted, ordered by chunk_index (records
\* of one file are inserted in index order, so table order is index order)
ChunksOf(fileID) ==
    LET keep(c) == c.FileID = fileID /\ ~c.Deleted
    IN  SelectSeq(dbChunks, keep)

NewChunkedRangeReadCloser(chunks, fileSize) ==
    [kind |-> "ChunkedRangeReadCloser", chunks |-> chunks, fileSize |-> fileSize]

Link ==
    /\ reader = NoReader
    /\ \E id \in 1..Len(files) :
         LET f == files[id] IN
         /\ ~f.Deleted
         /\ IF ~f.IsChunked
            THEN \* a single file: the direct URL of its page, or the error
                 /\ \E e \in {"nil", "getURLFailed"} :
                       last' = [NoCall("Link") EXCEPT !.err = e, !.body = "url"]
                 /\ UNCHANGED rangeReadCloser
            ELSE IF Len(ChunksOf(id)) = 0
            THEN /\ last' = [NoCall("Link") EXCEPT !.err = "noChunkData"]
                 /\ UNCHANGED rangeReadCloser
            ELSE /\ rangeReadCloser' = NewChunkedRangeReadCloser(ChunksOf(id), f.Size)
                 /\ last' = NoCall("Link")
    /\ UNCHANGED <<dirs, files, dbChunks, putLast, reader, delivered, openCount,
                   clean, entries>>

\* ------------------------------------------------------------ RangeRead
\* the bounds check of RangeRead without the test for a negative start
rangeError_NoNegativeCheck(c, httpRange) ==
    IF httpRange.Start >= c.fileSize
    THEN "rangeStartExceedsFileSize"
    ELSE "nil"

\* the bounds check at the head of RangeRead
rangeError(c, httpRange) ==
    IF httpRange.Start < 0
    THEN "invalidRangeStart"
    ELSE IF httpRange.Start >= c.fileSize
    THEN "rangeStartExceedsFileSize"
    ELSE "nil"

\* the overlap test with the chunk start compared to the wrong request bound
overlaps_WrongBound(chunk, requestStart, requestEnd) ==
    chunk.StartOffset <= requestStart /\ chunk.EndOffset > requestStart

\* the overlap test that also takes a chunk that only touches the request
overlaps_Inclusive(chunk, requestStart, requestEnd) ==
    chunk.StartOffset <= requestEnd /\ chunk.EndOffset >= requestStart

\* chunk.StartOffset < requestEnd && chunk.EndOffset > httpRange.Start
overlaps(chunk, requestStart, requestEnd) ==
    chunk.StartOffset < requestEnd /\ chunk.EndOffset > requestStart

\* the end of the request without the clamp to the file size
requestEnd_NoClamp(c, httpRange) ==
    LET Length == IF httpRange.Length = -1
                  THEN c.fileSize - httpRange.Start
                  ELSE httpRange.Length
    IN  httpRange.Start + Length

\* the end of the request with the sentinel taken for a length
requestEnd_NoSentinel(c, httpRange) ==
    IF httpRange.Start + httpRange.Length > c.fileSize
    THEN c.fileSize
    ELSE httpRange.Start + httpRange.Length

\* requestEnd := httpRange.Start + httpRange.Length, after the sentinel
\* Length = -1 was replaced by fileSize - Start, clamped to the file size
requestEnd(c, httpRange) ==
    LET Length == IF httpRange.Length = -1
                  THEN c.fileSize - httpRange.Start
                  ELSE httpRange.Length
    IN  IF httpRange.Start + Length > c.fileSize
        THEN c.fileSize
        ELSE httpRange.Start + Length

\* ChunkedRangeReadCloser.RangeRead: the reader or the error it returns
RangeRead(c, httpRange) ==
    IF rangeError(c, httpRange) # "nil"
    THEN [reader |-> NoReader, err |-> rangeError(c, httpRange)]
    ELSE
    LET needed(chunk) == overlaps(chunk, httpRange.Start, requestEnd(c, httpRange))
        neededChunks == SelectSeq(c.chunks, needed)
    IN  IF Len(neededChunks) = 0
        THEN [reader |-> NoReader, err |-> "noChunksFound"]
        ELSE [reader |-> [kind          |-> "ChunkedReader",
                          chunks        |-> neededChunks,
                          requestStart  |-> httpRange.Start,
                          requestEnd    |-> requestEnd(c, httpRange),
                          currentChunk  |-> 0,
                          currentReader |-> Nil,
                          currentOffset |-> 0,
                          totalRead     |-> 0],
              err |-> "nil"]

\* ChunkedRangeReadCloser.RangeRead of drivers/notion/types.go: no bounds
\* check, the sentinel Length = -1 replaced by fileSize - Start, no clamp
RangeReadDriver(c, httpRange) ==
    LET Length == IF httpRange.Length = -1
                  THEN c.fileSize - httpRange.Start
                  ELSE httpRange.Length
        end == httpRange.Start + Length
        needed(chunk) == chunk.StartOffset < end /\ chunk.EndOffset > httpRange.Start
        neededChunks == SelectSeq(c.chunks, needed)
    IN  IF Len(neededChunks) = 0
        THEN [reader |-> NoReader, err |-> "noChunksFound"]
        ELSE [reader |-> [kind          |-> "ChunkedReader",
                          chunks        |-> neededChunks,
                          requestStart  |-> httpRange.Start,
                          requestEnd    |-> end,
                          currentChunk  |-> 0,
                          currentReader |-> Nil,
                          currentOffset |-> 0,
                          totalRead     |-> 0],
              err |-> "nil"]

\* the request {start: 4_400_000_000, length: 200_000_000} of the scenario,
\* in units of 100_000_000 bytes
ScenarioRequest == <<44, 2>>

\* The requests <<Start, Length>> made of a file: starts from -1 up to the
\* bound and lengths from the sentinel -1 up to the bound plus one; of the
\* file of the scenario, the request of the scenario, one that starts
\* before the file and one that starts at its end.
Requests(fileSize) ==
    IF fileSize = ScenarioInput[1]
    THEN {ScenarioRequest, <<-1, ScenarioRequest[2]>>, <<fileSize, ScenarioRequest[2]>>}
    ELSE ((-1)..MaxFileSize) \X ((-1)..(MaxFileSize + 1))

DoRangeRead ==
    /\ rangeReadCloser # NoCloser
    /\ reader = NoReader
    /\ \E q \in Requests(rangeReadCloser.fileSize) :
       \E Start \in {q[1]}, Length \in {q[2]} :
         LET out == RangeRead(rangeReadCloser, [Start |-> Start, Length |-> Length])
         IN  /\ reader' = out.reader
             /\ last' = [NoCall("RangeRead") EXCEPT !.req = <<Start, Length>>,
                                                    !.err = out.err]
    /\ UNCHANGED <<dirs, files, dbChunks, putLast, rangeReadCloser, delivered,
                   openCount, clean, entries>>

\* ------------------------------------------------------- ChunkedReader
\* What the backend does in one attempt of the loop: the resolution fails
\* ("resErr"), lists no file ("noFiles"), or succeeds and then the open
\* fails ("openErr": the request fails in transport; "badStatus": it is
\* answered with a status other than 206 and 200) or succeeds ("ok").  A
\* script gives the outcome of each attempt; outcomes after the first
\* terminal one are never looked at and are fixed to "ok".
Outcomes == {"resErr", "openErr", "noFiles", "ok"}

Retryable == {"resErr", "openErr"}

\* the outcomes with the refused request told apart from the failed one
StatusOutcomes == Outcomes \cup {"badStatus"}

\* resp.StatusCode of the response of an attempt: 403 for a refused request;
\* 206 stands for a granted one (206 or 200, as the body of the response is)
StatusCode(o) == IF o = "badStatus" THEN 403 ELSE 206

\* the status test that lets every response through
accepted_Any(statusCode) == TRUE

\* not (resp.StatusCode != http.StatusPartialContent &&
\*      resp.StatusCode != http.StatusOK)
accepted(statusCode) == statusCode = 206 \/ statusCode = 200

\* the test for an empty listing that never finds one
emptyListing_Ignored(o) == FALSE

\* len(property.Files) == 0
emptyListing(o) == o = "noFiles"

\* the wait that does not grow
delay_Constant(retry) == 1

\* time.Sleep(time.Second * time.Duration(retry+1)), in seconds
delay(retry) == retry + 1

Scripts ==
    {s \in [1..maxRetries -> Outcomes] :
        \A k \in 1..maxRetries :
            (\E j \in 1..(k - 1) : s[j] \notin Retryable) => s[k] = "ok"}

StatusScripts ==
    {s \in [1..maxRetries -> StatusOutcomes] :
        \A k \in 1..maxRetries :
            (\E j \in 1..(k - 1) : s[j] \in {"noFiles", "ok"}) => s[k] = "ok"}

OkScript == [k \in 1..maxRetries |-> "ok"]

\* A successful open answers with the requested sub-range ("exact", 206),
\* with the whole object ("full", 200), or with a body that ends one byte
\* before the requested sub-range does ("short").
BodyKinds == {"exact", "full", "short"}

\* the sub-range start that resumes after the bytes already delivered
chunkStart_Resume(r, chunk) ==
    max(r.requestStart + r.totalRead, chunk.StartOffset) - chunk.StartOffset

\* the sub-range start that ignores where the request starts in the chunk
chunkStart_FromChunkStart(r, chunk) == chunk.StartOffset - chunk.StartOffset

\* chunkStart := max(r.requestStart, chunk.StartOffset) - chunk.StartOffset
chunkStart(r, chunk) == max(r.requestStart, chunk.StartOffset) - chunk.StartOffset

\* the end of the sub-range not held to the end of the chunk
chunkEnd_NoMin(r, chunk) == r.requestEnd - chunk.StartOffset

\* chunkEnd := min(r.requestEnd, chunk.EndOffset) - chunk.StartOffset
chunkEnd(r, chunk) == min(r.requestEnd, chunk.EndOffset) - chunk.StartOffset

\* the Range header with an exclusive last byte
rangeHeader_Exclusive(offset, length) ==
    IF length > 0 THEN <<offset, offset + length>> ELSE <<offset, -1>>

\* the Range header createChunkReader sends: <<a, b>> for bytes=a-b (both
\* inclusive), <<a, -1>> for the open-ended bytes=a-
rangeHeader(offset, length) ==
    IF length > 0 THEN <<offset, offset + length - 1>> ELSE <<offset, -1>>

\* createChunkReader on a granted request: the response body.  The Range
\* header is bytes=offset-(offset+length-1) when length > 0 and the
\* open-ended bytes=offset- otherwise; the object holds ChunkSize bytes.
\* from is the offset in the object of the first byte of the body, pos that
\* of the next one.
createChunkReader(chunk, idx, offset, length, bodyKind) ==
    LET size == chunk.EndOffset - chunk.StartOffset
        hdr  == rangeHeader(offset, length)
        hi   == IF hdr[2] = -1 THEN size ELSE min(hdr[2] + 1, size)
    IN  [kind   |-> "body",
         chunk  |-> idx,
         from   |-> IF bodyKind = "full" THEN 0 ELSE hdr[1],
         pos    |-> IF bodyKind = "full" THEN 0 ELSE hdr[1],
         end    |-> IF bodyKind = "full" THEN size
                    ELSE IF bodyKind = "short" THEN max(hi - 1, hdr[1])
                    ELSE hi,
         closed |-> FALSE]

NoAttempt ==
    [err |-> "nil", opened |-> FALSE, retries |-> 0, resolves |-> 0,
     opens |-> 0, used |-> <<>>, rejected |-> 0, closedRejected |-> 0,
     sleeps |-> <<>>]

\* the location of the first resolution of the call, kept for every open
locationUsed_First(resolutions) == 1

\* The location createChunkReader is called with, property.Files[0].File.URL
\* of the GetPageProperty of the same iteration.  Locations are numbered by
\* the resolution of the call that gave them; resolutions counts the
\* resolutions made so far, this iteration's included.
locationUsed(resolutions) == resolutions

\* the test for the last attempt that no attempt passes
lastAttempt_Never(retry) == retry = maxRetries

\* the test for the last attempt that comes one attempt late
lastAttempt_Late(retry) == retry > maxRetries - 1

\* the test for the last attempt that gives up one attempt early
lastAttempt_Early(retry) == retry >= maxRetries - 2

\* retry == maxRetries-1
lastAttempt(retry) == retry = maxRetries - 1

\* a response refused for its status and left open
refuse_Leak(att) == [att EXCEPT !.rejected = @ + 1]

\* createChunkReader on a response whose status is neither 206 nor 200:
\* resp.Body.Close() and the error
refuse(att) == [att EXCEPT !.rejected = @ + 1, !.closedRejected = @ + 1]

\* the retry loop of Read, from attempt number retry on.  opens counts the
\* requests sent, rejected the responses refused for their status and
\* closedRejected those of them createChunkReader closed.
RECURSIVE attemptLoop(_, _, _)
attemptLoop(script, retry, acc) ==
    IF retry >= maxRetries
    THEN [acc EXCEPT !.err = "nil", !.opened = FALSE]
    ELSE
    LET o == script[retry + 1]
        resolved == [acc EXCEPT !.resolves = @ + 1]
        sent == [resolved EXCEPT !.opens = @ + 1,
                                 !.used = Append(@, locationUsed(resolved.resolves))]
        failed == IF o = "openErr" THEN sent
                  ELSE refuse(sent)
    IN  IF o = "resErr"
        THEN IF lastAttempt(retry)
             THEN [resolved EXCEPT !.err = "resolveFailed", !.retries = retry + 1]
             ELSE attemptLoop(script, retry + 1,
                              [resolved EXCEPT !.sleeps = Append(@, delay(retry))])
        ELSE IF emptyListing(o)
        THEN [resolved EXCEPT !.err = "noFiles"]
        ELSE IF o = "openErr" \/ ~accepted(StatusCode(o))
        THEN IF lastAttempt(retry)
             THEN [failed EXCEPT !.err = "openFailed", !.retries = retry + 1]
             ELSE attemptLoop(script, retry + 1,
                              [failed EXCEPT !.sleeps = Append(@, delay(retry))])
        ELSE [sent EXCEPT !.err = "nil", !.opened = TRUE, !.retries = retry + 1]

\* What one Read on a response body may return: rr = [n, kind], kind "more"
\* (err = nil), "eof" (io.EOF, only once the body is used up, possibly
\* together with its last bytes) or "fail" (any other error).  A closed body
\* only fails.
ReadResults == [n : 0..MaxBuf, kind : {"more", "eof", "fail"}]

BodyReadOK(h, plen, rr) ==
    LET avail == h.end - h.pos IN
    IF h.closed THEN rr.n = 0 /\ rr.kind = "fail"
    ELSE /\ rr.n <= min(plen, avail)
         /\ rr.kind = "more" => (plen = 0 \/ rr.n >= 1)
         /\ rr.kind = "eof" => rr.n = avail

\* a Close that leaves the body open
closeBody_Noop(h) == h

\* the body handle after Close
closeBody(h) == [h EXCEPT !.closed = TRUE]

\* the end-of-request test with > for >=
requestDone_OffByOne(r) == r.totalRead > r.requestEnd - r.requestStart

\* r.totalRead >= r.requestEnd-r.requestStart
requestDone(r) == r.totalRead >= r.requestEnd - r.requestStart

\* Read, first half: the early returns and the acquisition of a remote read
\* for the current chunk when none is open.  done: the call has returned.
acquire(r, script, bodyKind) ==
    IF requestDone(r)
    THEN [r |-> r, call |-> [NoCall("Read") EXCEPT !.err = "EOF"], done |-> TRUE]
    ELSE IF r.currentReader # Nil
    THEN [r |-> r, call |-> NoCall("Read"), done |-> FALSE]
    ELSE IF r.currentChunk >= Len(r.chunks)
    THEN [r |-> r, call |-> [NoCall("Read") EXCEPT !.err = "EOF"], done |-> TRUE]
    ELSE
    LET chunk == r.chunks[r.currentChunk + 1]
        att   == attemptLoop(script, 0, NoAttempt)
        c0    == [NoCall("Read") EXCEPT
                     !.entered = TRUE,
                     !.chunk = r.currentChunk,
                     !.script = script,
                     !.resolves = att.resolves,
                     !.opens = att.opens,
                     !.used = att.used,
                     !.rejected = att.rejected,
                     !.closedRejected = att.closedRejected,
                     !.sleeps = att.sleeps]
    IN  IF att.err # "nil"
        THEN [r |-> r,
              call |-> [c0 EXCEPT !.err = att.err, !.errChunk = r.currentChunk,
                                  !.errRetries = att.retries],
              done |-> TRUE]
        ELSE IF ~att.opened
        THEN \* the loop ended without a reader: Read on a nil ReadCloser
             [r |-> r, call |-> [c0 EXCEPT !.err = "panic"], done |-> TRUE]
        ELSE [r |-> [r EXCEPT
                       !.currentReader =
                           createChunkReader(chunk, r.currentChunk, chunkStart(r, chunk),
                                             chunkEnd(r, chunk) - chunkStart(r, chunk),
                                             bodyKind),
                       !.currentOffset = chunkStart(r, chunk)],
              call |-> [c0 EXCEPT
                          !.body = bodyKind,
                          !.range = <<chunkStart(r, chunk),
                                      chunkEnd(r, chunk) - chunkStart(r, chunk)>>,
                          !.header = rangeHeader(chunkStart(r, chunk),
                                                 chunkEnd(r, chunk) - chunkStart(r, chunk))],
              done |-> FALSE]

\* the buffer left as long as the caller made it
capped_NoCap(r, plen) == plen

\* len(p) after p = p[:remainingBytes]
capped(r, plen) ==
    LET remainingBytes == r.requestEnd - r.requestStart - r.totalRead
    IN  IF plen > remainingBytes THEN remainingBytes ELSE plen

\* the advance to the next chunk that jumps over one
nextChunk_Skip(currentChunk) == currentChunk + 2

\* the step at the end of a remote read that stays on the chunk
nextChunk_Stay(currentChunk) == currentChunk

\* r.currentChunk++
nextChunk(currentChunk) == currentChunk + 1

\* the handling of a read error that moves on to the next chunk
discard_Advance(r) == [r EXCEPT !.currentReader = Nil, !.currentChunk = @ + 1]

\* the handling of a read error that keeps the failed remote read
discard_Keep(r) == r

\* r.currentReader = nil after a read error that is not io.EOF: the chunk
\* index stays
discard(r) == [r EXCEPT !.currentReader = Nil]

\* Read, second half: one Read on the open remote read, which returned
\* rr = [n, kind], and the handling of its error
transfer(r, call, rr) ==
    LET h    == r.currentReader
        n    == rr.n
        base == r.chunks[h.chunk + 1].StartOffset
        r2   == [r EXCEPT !.totalRead = @ + n, !.currentReader.pos = @ + n]
        c1   == [call EXCEPT !.n = n, !.rres = rr.kind,
                             !.bytes = Span(base + h.pos, base + h.pos + n)]
    IN  IF rr.kind = "eof"
        THEN LET r3 == [r2 EXCEPT !.currentReader = Nil, !.currentChunk = nextChunk(@)]
             IN  [r |-> r3,
                  call |-> [c1 EXCEPT
                              !.closes = 1,
                              !.err = IF r3.totalRead < r3.requestEnd - r3.requestStart
                                         /\ r3.currentChunk < Len(r3.chunks)
                                      THEN "nil" ELSE "EOF"]]
        ELSE IF rr.kind = "fail"
        THEN [r |-> discard(r2),
              call |-> [c1 EXCEPT !.closes = 1, !.err = "readFailed"]]
        ELSE [r |-> r2, call |-> c1]

\* the effect of a Read call on the reader and on the record of the run;
\* before: the remote read the call read from
Returned(r, call, before) ==
    /\ reader' = r
    /\ last' = call
    /\ delivered' = delivered \o call.bytes
    /\ openCount' = openCount + (IF call.body # "none" THEN 1 ELSE 0)
                      + (call.rejected - call.closedRejected)
                      - (IF call.closes > 0 /\ ~before.closed THEN 1 ELSE 0)
    /\ clean' = (clean /\ call.rres # "fail" /\ call.body \in {"none", "exact"})

\* A Read call against a backend that behaves as one of scripts and answers
\* a granted request with a body of one of bodies; the caller's buffer has
\* one of the lengths bufs and the read of the body ends in one of kinds.
\* keep: the call that reads from a remote read records the length of its
\* buffer in last.buf; otherwise calls that differ in the buffer only are
\* one call.
ReadWith(scripts, bodies, bufs, kinds, keep) ==
    /\ reader # NoReader
    /\ \E script \in (IF acquire(reader, OkScript, "exact").call.entered
                      THEN scripts ELSE {OkScript}) :
       \E bodyKind \in (IF acquire(reader, script, "exact").call.body # "none"
                        THEN bodies ELSE {"exact"}) :
       \E a \in {acquire(reader, script, bodyKind)} :
         IF a.done
         THEN Returned(a.r, a.call, Nil)
         ELSE \E rr \in {x \in ReadResults :
                           /\ x.kind \in kinds
                           /\ \E plen \in bufs :
                                 BodyReadOK(a.r.currentReader, capped(a.r, plen), x)} :
              \E buf \in (IF keep
                          THEN {plen \in bufs :
                                   BodyReadOK(a.r.currentReader, capped(a.r, plen), rr)}
                          ELSE {-1}) :
              \E t \in {transfer(a.r, [a.call EXCEPT !.buf = buf], rr)} :
                 Returned(t.r, t.call, a.r.currentReader)
    /\ UNCHANGED <<dirs, files, dbChunks, putLast, rangeReadCloser>>

ResultKinds == {"more", "eof", "fail"}

Read ==
    /\ ReadWith(Scripts, BodyKinds, 0..MaxBuf, ResultKinds, FALSE)
    /\ UNCHANGED entries

ReadAnyStatus ==
    /\ ReadWith(StatusScripts, BodyKinds, 0..MaxBuf, ResultKinds, TRUE)
    /\ UNCHANGED entries

\* the backends of which some attempt of every chunk-entry is granted
GoodScripts ==
    {s \in Scripts : \E j \in 1..maxRetries :
                        /\ s[j] = "ok"
                        /\ \A i \in 1..(j - 1) : s[i] \in Retryable}

\* A Read call with a buffer that is not empty, against a backend of which
\* some attempt of every chunk-entry is granted and every remote read gives
\* its sub-range and then ends
ReadToEnd ==
    /\ ReadWith(GoodScripts, {"exact"}, 1..MaxBuf, {"more", "eof"}, FALSE)
    /\ entries' = IF last'.entered THEN Append(entries, last'.chunk) ELSE entries

\* ChunkedReader.Close
Close ==
    /\ reader # NoReader
    /\ IF reader.currentReader # Nil
       THEN /\ reader' = [reader EXCEPT !.currentReader = closeBody(@)]
            /\ openCount' = IF reader.currentReader.closed THEN openCount
                            ELSE openCount - 1
            /\ last' = [NoCall("Close") EXCEPT !.closes = 1]
       ELSE /\ last' = NoCall("Close")
            /\ UNCHANGED <<reader, openCount>>
    /\ UNCHANGED <<dirs, files, dbChunks, putLast, rangeReadCloser, delivered, clean,
                   entries>>

\* -------------------------------------------------------- directory tree
\* The database statements of a call are counted: n is the number of
\* statements that succeed before one fails, -1 when none fails.
tick(n) == IF n > 0 THEN n - 1 ELSE n

\* no statement fails, or the second or the third does (a call whose first
\* statement fails changes nothing)
FailPoints == {-1, 1, 2}

\* the ids 1..n in order
Ids(n) == [k \in 1..n |-> k]

\* Where("parent_id = ? AND deleted = ?", id, false).Find(&subDirs), as ids
SubDirs(ds, id) ==
    LET t(d) == ds[d].ParentID = id /\ ~ds[d].Deleted
    IN  SelectSeq(Ids(Len(ds)), t)

\* Where("directory_id = ? AND deleted = ?", id, false).Find(&files), as ids
FilesIn(fs, id) ==
    LET t(f) == fs[f].DirectoryID = id /\ ~fs[f].Deleted
    IN  SelectSeq(Ids(Len(fs)), t)

\* What the lookup of a directory of the same name under the parent gives.
\* Names are not modelled: any directory under the parent that is not
\* deleted may be the one of that name.
DirLookups(ds, parentID) ==
    {[kind |-> "notFound", id |-> 0], [kind |-> "dbError", id |-> 0]}
    \cup {[kind |-> "found", id |-> id] :
             id \in {k \in 1..Len(ds) : ~ds[k].Deleted /\ ds[k].ParentID = parentID}}

\* Notion.MakeDir: the directory found, or a new one under the parent
makeDir(ds, existing, parentID, n) ==
    IF existing.kind = "found"
    THEN [dirs |-> ds, err |-> "nil", made |-> existing.id]
    ELSE IF existing.kind = "dbError"
    THEN [dirs |-> ds, err |-> "checkExisting", made |-> 0]
    ELSE IF n = 0
    THEN [dirs |-> ds, err |-> "createDir", made |-> 0]
    ELSE [dirs |-> Append(ds, [ParentID |-> parentID, Deleted |-> FALSE]),
          err |-> "nil", made |-> Len(ds) + 1]

MakeDir ==
    /\ \E parentID \in LiveDirs(dirs) :
       \E existing \in DirLookups(dirs, parentID) :
         /\ existing.kind = "notFound" => Len(dirs) < 1 + MaxDirs
         /\ \E n \in (IF existing.kind = "notFound" THEN {-1, 0} ELSE {-1}) :
              LET out == makeDir(dirs, existing, parentID, n)
              IN  /\ dirs' = out.dirs
                  /\ last' = [NoCall("MakeDir") EXCEPT !.err = out.err]
    /\ UNCHANGED <<files, dbChunks, putLast, rangeReadCloser, reader, delivered,
                   openCount, clean, entries>>

\* the update of the files of a directory that marks none
removeFilesIn_None(fs, id) == fs

\* Model(&File{}).Where("directory_id = ?", id).Update("deleted", true)
removeFilesIn(fs, id) ==
    [k \in 1..Len(fs) |->
        IF fs[k].DirectoryID = id THEN [fs[k] EXCEPT !.Deleted = TRUE] ELSE fs[k]]

\* Notion.Remove of a directory on st = [dirs, files, n, err]: the directory
\* is marked, then its files, then Remove is called on each of its
\* sub-directories that is not deleted
RECURSIVE removeDir(_, _)
RECURSIVE removeSubDirs(_, _, _)
removeDir(st, id) ==
    IF st.n = 0 THEN [st EXCEPT !.err = "removeDir"]
    ELSE
    LET s1 == [st EXCEPT !.dirs[id].Deleted = TRUE, !.n = tick(@)]
    IN  IF s1.n = 0 THEN [s1 EXCEPT !.err = "removeFiles"]
        ELSE
        LET s2 == [s1 EXCEPT !.files = removeFilesIn(@, id), !.n = tick(@)]
        IN  IF s2.n = 0 THEN [s2 EXCEPT !.err = "findSubDirs"]
            ELSE removeSubDirs([s2 EXCEPT !.n = tick(@)], SubDirs(s2.dirs, id), 1)

removeSubDirs(st, subDirs, i) ==
    IF i > Len(subDirs) THEN st
    ELSE LET r == removeDir(st, subDirs[i])
         IN  IF r.err # "nil" THEN [r EXCEPT !.err = "removeSubDir"]
             ELSE removeSubDirs(r, subDirs, i + 1)

\* Notion.Remove
Remove(ds, fs, isDir, id, n) ==
    LET st == [dirs |-> ds, files |-> fs, n |-> n, err |-> "nil"]
    IN  IF isDir THEN removeDir(st, id)
        ELSE IF n = 0 THEN [st EXCEPT !.err = "removeFile"]
        ELSE [st EXCEPT !.files[id].Deleted = TRUE, !.n = tick(@)]

\* the objects a listing shows: directories other than the root and files,
\* not deleted
Objects(ds, fs) ==
    {[isDir |-> TRUE, id |-> d] : d \in LiveDirs(ds) \ {RootID}}
    \cup {[isDir |-> FALSE, id |-> f] : f \in {k \in 1..Len(fs) : ~fs[k].Deleted}}

DoRemove ==
    /\ \E obj \in Objects(dirs, files), n \in FailPoints :
         LET out == Remove(dirs, files, obj.isDir, obj.id, n)
         IN  /\ dirs' = out.dirs
             /\ files' = out.files
             /\ last' = [NoCall("Remove") EXCEPT !.isDir = obj.isDir, !.obj = obj.id,
                                                 !.err = out.err]
    /\ UNCHANGED <<dbChunks, putLast, rangeReadCloser, reader, delivered,
                   openCount, clean, entries>>

\* newFile of Copy: Name, Size, SHA1, NotionPageID of the source and the new
\* directory; the other fields take their defaults
copiedFile(file, dirID) ==
    [Size |-> file.Size, NotionPageID |-> file.NotionPageID, DirectoryID |-> dirID,
     IsChunked |-> FALSE, ChunkSize |-> 0, Deleted |-> FALSE]

\* Notion.Copy of a directory on st = [dirs, files, n, err, made, copies]:
\* a new directory under dstDirID, a new record for each file of the source
\* that is not deleted, then Copy of each sub-directory that is not deleted
\* into the new directory.  copies lists <<source file, new file>>.
RECURSIVE copyDir(_, _, _)
RECURSIVE copyFiles(_, _, _, _)
RECURSIVE copySubDirs(_, _, _, _)
copyDir(st, srcID, dstDirID) ==
    IF st.n = 0 \/ st.dirs[srcID].Deleted THEN [st EXCEPT !.err = "getSrcDir"]
    ELSE
    LET s1 == [st EXCEPT !.n = tick(@)]
        newID == Len(st.dirs) + 1
    IN  IF s1.n = 0 THEN [s1 EXCEPT !.err = "createDir"]
        ELSE
        LET s2 == [s1 EXCEPT !.dirs = Append(@, [ParentID |-> dstDirID, Deleted |-> FALSE]),
                             !.n = tick(@)]
        IN  IF s2.n = 0 THEN [s2 EXCEPT !.err = "listFiles"]
            ELSE
            LET s3 == copyFiles([s2 EXCEPT !.n = tick(@)], FilesIn(s2.files, srcID), 1, newID)
            IN  IF s3.err # "nil" THEN s3
                ELSE IF s3.n = 0 THEN [s3 EXCEPT !.err = "listSubDirs"]
                ELSE
                LET s4 == copySubDirs([s3 EXCEPT !.n = tick(@)],
                                      SubDirs(s3.dirs, srcID), 1, newID)
                IN  IF s4.err # "nil" THEN s4 ELSE [s4 EXCEPT !.made = newID]

copyFiles(st, ids, i, newDir) ==
    IF i > Len(ids) THEN st
    ELSE IF st.n = 0 THEN [st EXCEPT !.err = "copyFile"]
    ELSE copyFiles([st EXCEPT !.files = Append(@, copiedFile(st.files[ids[i]], newDir)),
                              !.copies = Append(@, <<ids[i], Len(st.files) + 1>>),
                              !.n = tick(@)],
                   ids, i + 1, newDir)

copySubDirs(st, subDirs, i, newDir) ==
    IF i > Len(subDirs) THEN st
    ELSE LET r == copyDir(st, subDirs[i], newDir)
         IN  IF r.err # "nil" THEN [r EXCEPT !.err = "copySubDir"]
             ELSE copySubDirs(r, subDirs, i + 1, newDir)

\* Notion.Copy of a file
copyFile(st, srcID, dstDirID) ==
    IF st.n = 0 \/ st.files[srcID].Deleted THEN [st EXCEPT !.err = "getSrcFile"]
    ELSE
    LET s1 == [st EXCEPT !.n = tick(@)]
    IN  IF s1.n = 0 THEN [s1 EXCEPT !.err = "copyFileRecord"]
        ELSE [s1 EXCEPT !.files = Append(@, copiedFile(st.files[srcID], dstDirID)),
                        !.copies = Append(@, <<srcID, Len(st.files) + 1>>),
                        !.made = Len(st.files) + 1,
                        !.n = tick(@)]

\* Notion.Copy
Copy(ds, fs, isDir, srcID, dstDirID, n) ==
    LET st == [dirs |-> ds, files |-> fs, n |-> n, err |-> "nil", made |-> 0,
               copies |-> <<>>]
    IN  IF isDir THEN copyDir(st, srcID, dstDirID) ELSE copyFile(st, srcID, dstDirID)

\* the directory id and the directories under it, whatever their flags
RECURSIVE Under(_, _)
Under(ds, S) ==
    LET T == S \cup {d \in 1..Len(ds) : ds[d].ParentID \in S}
    IN  IF T = S THEN S ELSE Under(ds, T)

\* A Copy call.  A directory is copied to a directory outside itself (the
\* caller does not ask for a copy of a directory into its own tree), and
\* the tables stay within their bounds.
DoCopy ==
    /\ \E obj \in Objects(dirs, files), n \in FailPoints :
       \E dstDirID \in (IF obj.isDir THEN LiveDirs(dirs) \ Under(dirs, {obj.id})
                        ELSE LiveDirs(dirs)) :
         LET out == Copy(dirs, files, obj.isDir, obj.id, dstDirID, n)
         IN  /\ Len(out.dirs) <= 1 + MaxDirs
             /\ Len(out.files) <= MaxTreeFiles
             /\ dirs' = out.dirs
             /\ files' = out.files
             /\ last' = [NoCall("Copy") EXCEPT !.isDir = obj.isDir, !.obj = obj.id,
                                               !.dst = dstDirID, !.err = out.err,
                                               !.made = out.made, !.copies = out.copies]
    /\ UNCHANGED <<dbChunks, putLast, rangeReadCloser, reader, delivered,
                   openCount, clean, entries>>

\* a Put call that stores a chunked file under a new name, nothing failing
PutFile == DoPutWith({MaxPutSize}, MaxTreeFiles, FALSE)

\* ------------------------------------------------------- specifications
NoPut ==
    [via |-> "none",
     fileSize |-> 0, maxChunkSize |-> 0, fault |-> [kind |-> "none", at |-> 0],
     chunks |-> <<>>, pages |-> <<>>, uploads |-> <<>>, err |-> "none", obj |-> 0, objSize |-> 0]

NoRun ==
    /\ dirs = <<RootDir>>
    /\ entries = <<>>
    /\ rangeReadCloser = NoCloser
    /\ reader = NoReader
    /\ delivered = <<>>
    /\ openCount = 0
    /\ clean = TRUE
    /\ last = NoCall("none")

\* the driver with empty tables
InitUpload ==
    /\ files = <<>>
    /\ dbChunks = <<>>
    /\ putLast = NoPut
    /\ NoRun

NextUpload ==
    \/ PutChunkedFile
    \/ Link

SpecUpload == InitUpload /\ [][NextUpload]_vars

\* the driver with empty tables, files stored through Put
NextPut ==
    \/ DoPut
    \/ Link

SpecPut == InitUpload /\ [][NextPut]_vars

\* the driver after one chunked upload that succeeded
Init ==
    /\ \E in \in UploadInputs :
       \E fileSize \in {in[1]}, maxChunkSize \in {in[2]} :
         LET out == putChunkedFile(<<>>, <<>>, fileSize, maxChunkSize, NoFault, RootID)
         IN  /\ files = out.files
             /\ dbChunks = out.dbChunks
             /\ putLast = out.putLast
    /\ NoRun

Next ==
    \/ Link
    \/ DoRangeRead
    \/ Read
    \/ Close

Spec == Init /\ [][Next]_vars

\* the driver after the chunked upload of the scenario's file, read against
\* a backend that may also refuse a request by its status
InitScenario ==
    /\ LET out == putChunkedFile(<<>>, <<>>, ScenarioInput[1], ScenarioInput[2], NoFault, RootID)
       IN  /\ files = out.files
           /\ dbChunks = out.dbChunks
           /\ putLast = out.putLast
    /\ NoRun

NextScenario ==
    \/ Link
    \/ DoRangeRead
    \/ ReadAnyStatus
    \/ Close

SpecScenario == InitScenario /\ [][NextScenario]_vars

\* the driver after one chunked upload that succeeded, read to the end by a
\* caller that keeps calling Read
NextLive ==
    \/ Link
    \/ DoRangeRead
    \/ ReadToEnd

SpecLive == Init /\ [][NextLive]_vars /\ WF_vars(ReadToEnd)

\* the driver with empty tables, its directory tree built and removed
NextTree ==
    \/ MakeDir
    \/ PutFile
    \/ DoRemove

SpecTree == InitUpload /\ [][NextTree]_vars

\* the driver with empty tables, its directory tree built and copied
NextCopy ==
    \/ MakeDir
    \/ PutFile
    \/ DoCopy
    \/ Link

SpecCopy == InitUpload /\ [][NextCopy]_vars

\* ---------------------------------------------------------------- claims
\* the logical offsets of the sub-range of chunk that a reader r asks for
SubRange(r, chunk) ==
    Span(chunk.StartOffset + chunkStart(r, chunk), chunk.StartOffset + chunkEnd(r, chunk))

RECURSIVE SubRanges(_, _)
SubRanges(r, k) ==
    IF k > Len(r.chunks) THEN <<>>
    ELSE SubRange(r, r.chunks[k]) \o SubRanges(r, k + 1)

\* C1 - range mapping correctness: for every reader RangeRead returns for a
\* request [start, end) with start < end, the sub-ranges of the selected
\* chunks, as logical offsets and concatenated in list order, are exactly
\* start, start+1, .., end-1: no gap, no overlap, every sub-range non-empty.
RangeMappingCorrect ==
    (reader # NoReader /\ reader.requestStart < reader.requestEnd) =>
        /\ SubRanges(reader, 1) = Span(reader.requestStart, reader.requestEnd)
        /\ \A k \in 1..Len(reader.chunks) :
              chunkStart(reader, reader.chunks[k]) < chunkEnd(reader, reader.chunks[k])

\* a request that starts inside one chunk and ends in a later one
RangeMappingWitness ==
    /\ reader # NoReader
    /\ Len(reader.chunks) >= 2
    /\ reader.requestStart > reader.chunks[1].StartOffset

\* C2 - all-or-nothing delivery: when a Read signals end-of-data, the bytes
\* delivered so far are exactly the requested range.
AllOrNothing ==
    (reader # NoReader /\ last.op = "Read" /\ last.err = "EOF") =>
        delivered = Span(reader.requestStart, reader.requestEnd)

\* C3 - ordering: as long as no remote read failed mid-stream and every
\* remote read returned exactly its requested sub-range, the k-th byte
\* delivered is the byte at logical offset requestStart + k.
OrderedDelivery ==
    (reader # NoReader /\ clean) =>
        delivered = Span(reader.requestStart, reader.requestStart + Len(delivered))

\* a clean run that crossed a chunk boundary mid-request and reached the end
OrderedDeliveryWitness ==
    /\ reader # NoReader
    /\ clean
    /\ reader.currentChunk >= 2
    /\ reader.requestStart > 0
    /\ Len(delivered) = reader.requestEnd - reader.requestStart
    /\ last.op = "Read"
    /\ last.err = "EOF"

\* C4 - bounds rejection: a RangeRead with start < 0 or start >= fileSize
\* returns an error, creates no reader, and resolves and opens nothing.
BoundsRejection ==
    (last.op = "RangeRead"
        /\ (last.req[1] < 0 \/ last.req[1] >= rangeReadCloser.fileSize)) =>
        /\ last.err \in {"invalidRangeStart", "rangeStartExceedsFileSize"}
        /\ reader = NoReader
        /\ last.resolves = 0
        /\ last.opens = 0
        /\ openCount = 0
        /\ delivered = <<>>

\* the request {start: -1, length > 0} was rejected
BoundsRejectionWitness ==
    /\ last.op = "RangeRead"
    /\ last.req[1] = -1
    /\ last.req[2] > 0
    /\ last.err = "invalidRangeStart"

\* C5 - layout completeness: the chunk bounds of a chunked upload that ran
\* through start at 0, are contiguous, end at the file size, and every chunk
\* holds between 1 and maxChunkSize bytes, only the last one possibly fewer
\* than maxChunkSize.
LayoutComplete ==
    putLast.err = "nil" =>
        LET cs == putLast.chunks
            m  == putLast.maxChunkSize
        IN  /\ Len(cs) >= 1
            /\ cs[1].StartOffset = 0
            /\ cs[Len(cs)].EndOffset = putLast.fileSize
            /\ \A i \in 1..(Len(cs) - 1) : cs[i].EndOffset = cs[i + 1].StartOffset
            /\ \A i \in 1..Len(cs) :
                  /\ cs[i].ChunkIndex = i - 1
                  /\ cs[i].EndOffset - cs[i].StartOffset >= 1
                  /\ cs[i].EndOffset - cs[i].StartOffset <= m
                  /\ i < Len(cs) => cs[i].EndOffset - cs[i].StartOffset = m

\* an upload of several chunks whose last chunk is shorter than the others
LayoutCompleteWitness ==
    /\ putLast.err = "nil"
    /\ Len(putLast.chunks) >= 2
    /\ putLast.chunks[Len(putLast.chunks)].ChunkSize < putLast.maxChunkSize

\* C6 - retry ceiling: when the resolution fails on every attempt of a
\* chunk-entry, exactly 3 resolutions are made, nothing is opened, and Read
\* returns an error carrying the chunk index and the attempt count 3.
RetryCeiling ==
    (last.op = "Read" /\ last.entered
        /\ \A k \in 1..Len(last.script) : last.script[k] = "resErr") =>
        /\ last.resolves = 3
        /\ last.opens = 0
        /\ last.body = "none"
        /\ last.n = 0
        /\ last.err = "resolveFailed"
        /\ last.errChunk = reader.currentChunk
        /\ last.errRetries = 3
        /\ reader.currentReader = Nil
        /\ openCount = 0

\* the resolution of the second chunk of a request failed three times
RetryCeilingWitness ==
    /\ last.op = "Read"
    /\ last.entered
    /\ last.script = <<"resErr", "resErr", "resErr">>
    /\ last.chunk = 1
    /\ last.err = "resolveFailed"

\* C7 - recovery within the budget: when attempts 1 and 2 of a chunk-entry
\* fail (resolution or open) and attempt 3 succeeds, Read reports no
\* acquisition error, the remote read is opened on the chunk's original
\* sub-range, and a read that the backend serves as asked delivers the bytes
\* of that sub-range from its start.
RecoveryWithinBudget ==
    (last.op = "Read" /\ last.entered
        /\ last.script[1] \in Retryable /\ last.script[2] \in Retryable
        /\ last.script[3] = "ok") =>
        LET chunk == reader.chunks[last.chunk + 1]
            from  == max(reader.requestStart, chunk.StartOffset)
            to    == min(reader.requestEnd, chunk.EndOffset)
        IN  /\ last.resolves = 3
            /\ last.sleeps = <<1, 2>>
            /\ last.body # "none"
            /\ last.range = <<from - chunk.StartOffset, to - from>>
            /\ last.err \in {"nil", "EOF", "readFailed"}
            /\ (last.body = "exact" /\ last.rres # "fail") =>
                  /\ last.err \in {"nil", "EOF"}
                  /\ last.bytes = Span(from, from + last.n)
                  /\ (last.rres = "eof" => last.n = to - from)

\* two failed attempts, then the whole sub-range of a chunk entered mid-chunk
RecoveryWithinBudgetWitness ==
    /\ last.op = "Read"
    /\ last.entered
    /\ last.script = <<"resErr", "openErr", "ok">>
    /\ last.body = "exact"
    /\ last.rres = "eof"
    /\ last.n >= 1
    /\ last.range[1] > 0
    /\ clean

\* the reader has nothing more to deliver
Exhausted(r) ==
    /\ r # NoReader
    /\ \/ r.totalRead >= r.requestEnd - r.requestStart
       \/ r.currentReader = Nil /\ r.currentChunk >= Len(r.chunks)

\* C8 - idempotent exhaustion: a Read on an exhausted reader returns 0 bytes
\* and end-of-data, resolves and opens nothing, and changes nothing.
IdempotentExhaustion ==
    [][(Exhausted(reader) /\ last'.op = "Read") =>
          /\ last'.n = 0
          /\ last'.err = "EOF"
          /\ last'.resolves = 0
          /\ last'.opens = 0
          /\ last'.closes = 0
          /\ reader' = reader
          /\ delivered' = delivered
          /\ openCount' = openCount]_vars

\* a Read that found the reader exhausted, its last remote read still open
IdempotentExhaustionWitness ==
    /\ Exhausted(reader)
    /\ last.op = "Read"
    /\ last.err = "EOF"
    /\ last.rres = "none"
    /\ reader.currentReader # Nil
    /\ reader.totalRead > 0

\* C9 - no look-ahead: a chunk is resolved or opened only when no remote
\* read is open and it is the chunk the reader stands at; the reader starts
\* at chunk 0 and moves on by exactly one chunk, only in a call that closed
\* the remote read of the chunk it stood at; at most one remote read is open,
\* and it is the one of the current chunk.
NoLookAhead ==
    /\ [](/\ openCount <= 1
          /\ (reader # NoReader /\ reader.currentReader # Nil) =>
                reader.currentReader.chunk = reader.currentChunk)
    /\ [][(last'.op = "RangeRead" /\ reader' # NoReader) =>
             reader'.currentChunk = 0 /\ reader'.currentReader = Nil]_vars
    /\ [][(last'.op = "Read" /\ last'.entered) =>
             /\ openCount = 0
             /\ reader.currentReader = Nil
             /\ last'.chunk = reader.currentChunk
             /\ last'.chunk < Len(reader.chunks)]_vars
    /\ [][(reader # NoReader /\ reader'.currentChunk # reader.currentChunk) =>
             /\ reader'.currentChunk = reader.currentChunk + 1
             /\ reader'.currentReader = Nil
             /\ last'.closes = 1
             /\ last'.rres = "eof"
             /\ openCount' = 0]_vars

\* the third chunk of a request entered, its remote read open
NoLookAheadWitness ==
    /\ reader # NoReader
    /\ reader.currentChunk = 2
    /\ reader.currentReader # Nil
    /\ last.entered
    /\ last.chunk = 2
    /\ openCount = 1

\* C10 - Close: it closes the open remote read if there is one and changes
\* nothing else; with none open it returns nil and changes nothing.
CloseSafe ==
    [][(reader # NoReader /\ last'.op = "Close") =>
          /\ delivered' = delivered
          /\ IF reader.currentReader # Nil
             THEN /\ reader'.currentReader.closed
                  /\ reader' = [reader EXCEPT !.currentReader.closed = TRUE]
                  /\ openCount' = 0
             ELSE /\ reader' = reader
                  /\ openCount' = openCount
                  /\ last'.err = "nil"
                  /\ last'.closes = 0]_vars

\* Close in the middle of a request, with a remote read open
CloseSafeWitness ==
    /\ last.op = "Close"
    /\ reader.currentReader # Nil
    /\ reader.currentReader.closed
    /\ reader.totalRead > 0
    /\ reader.totalRead < reader.requestEnd - reader.requestStart

\* the chunk records saved for the file of the last chunked upload
SavedForLastPut == LET keep(c) == c.FileID = Len(files) IN SelectSeq(dbChunks, keep)

\* C11 - abort on store failure: when the page creation or the upload of
\* chunk i fails, the chunked upload returns that error and no object, no
\* page is created and nothing uploaded for a chunk after i, the chunks
\* 0..i-1 stay uploaded, and no chunk record of the file is saved.
StoreFailureAborts ==
    (putLast.fault.kind \in {"page", "upload"}) =>
        LET i == putLast.fault.at IN
        /\ putLast.err = (IF putLast.fault.kind = "page" THEN "createPage" ELSE "upload")
        /\ putLast.obj = 0
        /\ putLast.uploads = Span(0, i)
        /\ putLast.pages = Span(0, IF putLast.fault.kind = "page" THEN i ELSE i + 1)
        /\ SavedForLastPut = <<>>

\* the upload of the second chunk failed after the first one was stored
StoreFailureAbortsWitness ==
    /\ putLast.fault = [kind |-> "upload", at |-> 1]
    /\ putLast.err = "upload"
    /\ putLast.uploads = <<0>>
    /\ putLast.pages = <<0, 1>>

\* C12 - records of a successful chunked upload: one chunk record per
\* planned bound, indices 0..chunkCount-1 in order, each with its planned
\* offsets, size end - start, page and checksum; the file record is chunked
\* with chunk size maxChunkSize and size totalSize.
SuccessRecords ==
    putLast.err = "nil" =>
        LET id   == putLast.obj
            size == putLast.fileSize
            m    == putLast.maxChunkSize
            n    == CHOOSE k \in 0..size : k * m >= size /\ (k - 1) * m < size
            cs   == SavedForLastPut
        IN  /\ id = Len(files)
            /\ files[id].IsChunked
            /\ files[id].ChunkSize = m
            /\ files[id].Size = size
            /\ Len(cs) = n
            /\ putLast.pages = Span(0, n)
            /\ putLast.uploads = Span(0, n)
            /\ \A k \in 1..Len(cs) :
                  LET lo == (k - 1) * m
                      hi == IF lo + m < size THEN lo + m ELSE size
                  IN  /\ cs[k].FileID = id
                      /\ cs[k].ChunkIndex = k - 1
                      /\ cs[k].StartOffset = lo
                      /\ cs[k].EndOffset = hi
                      /\ cs[k].ChunkSize = hi - lo
                      /\ cs[k].NotionPageID = pageID(id, k - 1)
                      /\ cs[k].SHA1 = hash1(id, lo, hi)

\* a successful upload whose records end with a chunk shorter than the rest
SuccessRecordsWitness ==
    /\ putLast.err = "nil"
    /\ putLast.obj = Len(files)
    /\ Len(SavedForLastPut) >= 2
    /\ SavedForLastPut[Len(SavedForLastPut)].ChunkSize < files[putLast.obj].ChunkSize

\* C13 - cancellation between chunks only: a signal set when chunk i is
\* about to begin makes the upload return the cancellation error with no
\* page and no upload for chunk i or a later one, chunks 0..i-1 stored; a
\* signal raised while chunk i is uploaded lets that chunk's store finish,
\* and is acted on at the next chunk, if there is one.
CancelBetweenChunks ==
    LET i == putLast.fault.at
        n == chunkCount(putLast.fileSize, putLast.maxChunkSize)
    IN  /\ putLast.fault.kind = "cancel" =>
              /\ putLast.err = "canceled"
              /\ putLast.obj = 0
              /\ putLast.pages = Span(0, i)
              /\ putLast.uploads = Span(0, i)
        /\ putLast.fault.kind = "cancelMid" =>
              /\ Len(putLast.uploads) >= i + 1
              /\ putLast.uploads[i + 1] = i
              /\ IF i + 1 < n
                 THEN /\ putLast.err = "canceled"
                      /\ putLast.obj = 0
                      /\ putLast.pages = Span(0, i + 1)
                      /\ putLast.uploads = Span(0, i + 1)
                 ELSE /\ putLast.err = "nil"
                      /\ putLast.uploads = Span(0, n)

\* a signal raised during the upload of the first chunk stopped the second
CancelBetweenChunksWitness ==
    /\ putLast.fault = [kind |-> "cancelMid", at |-> 0]
    /\ putLast.err = "canceled"
    /\ putLast.uploads = <<0>>

LayoutFormula ==
    (putLast.via = "putChunkedFile") =>
        LET size == putLast.fileSize
            m    == putLast.maxChunkSize
            cs   == putLast.chunks
            bounds == [k \in 1..Len(cs) |-> <<cs[k].StartOffset, cs[k].EndOffset>>]
        IN  /\ \A k \in 1..Len(cs) :
                  /\ cs[k].StartOffset = (k - 1) * m
                  /\ cs[k].EndOffset = (IF (k - 1) * m + m < size THEN (k - 1) * m + m ELSE size)
            /\ putLast.err = "nil" =>
                  /\ Len(cs) * m >= size
                  /\ (Len(cs) - 1) * m < size
            /\ (putLast.err = "nil" /\ <<size, m>> = ScenarioInput) =>
                  bounds = << <<0, 45>>, <<45, 90>>, <<90, 100>> >>

\* the 10 GB file of the scenario uploaded in 3 chunks
LayoutFormulaWitness ==
    /\ putLast.via = "putChunkedFile"
    /\ putLast.err = "nil"
    /\ <<putLast.fileSize, putLast.maxChunkSize>> = ScenarioInput
    /\ Len(putLast.chunks) = 3

\* C16 - intra-chunk sub-range: the remote read a Read opens for a chunk
\* asks for the chunk-relative range [max(request.start, chunk.start) -
\* chunk.start, min(request.end, chunk.end) - chunk.start), sent as the
\* inclusive header bytes=a-(b-1); the request {start: 4.4e9, length: 2e8}
\* of the scenario selects chunks 0 and 1 only, and asks chunk 0 for
\* [4.4e9, 4.5e9) and chunk 1 for [0, 1e8).
SubRangeRequested ==
    /\ (last.op = "Read" /\ last.body # "none") =>
          LET chunk == reader.chunks[last.chunk + 1]
              lo == IF reader.requestStart > chunk.StartOffset
                    THEN reader.requestStart ELSE chunk.StartOffset
              hi == IF reader.requestEnd < chunk.EndOffset
                    THEN reader.requestEnd ELSE chunk.EndOffset
              a  == lo - chunk.StartOffset
              b  == hi - chunk.StartOffset
          IN  /\ a < b
              /\ last.range = <<a, b - a>>
              /\ last.header = <<a, b - 1>>
    /\ (reader # NoReader /\ rangeReadCloser.fileSize = ScenarioInput[1]
           /\ <<reader.requestStart, reader.requestEnd>> = <<44, 46>>) =>
          /\ [k \in 1..Len(reader.chunks) |-> reader.chunks[k].ChunkIndex] = <<0, 1>>
          /\ (last.op = "Read" /\ last.body # "none" /\ last.chunk = 0) =>
                last.header = <<44, 44>>
          /\ (last.op = "Read" /\ last.body # "none" /\ last.chunk = 1) =>
                last.header = <<0, 0>>

\* the second chunk of the scenario's request opened on its first unit
SubRangeRequestedWitness ==
    /\ reader # NoReader
    /\ rangeReadCloser.fileSize = ScenarioInput[1]
    /\ <<reader.requestStart, reader.requestEnd>> = <<44, 46>>
    /\ last.op = "Read"
    /\ last.body = "exact"
    /\ last.chunk = 1
    /\ last.header = <<0, 0>>
    /\ delivered = <<44>>

\* C17 - request end derivation: the reader RangeRead returns for a request
\* {start, length} has requestStart = start and requestEnd = start + length,
\* the sentinel length -1 standing for fileSize - start, clamped to
\* fileSize; so 0 <= requestStart <= requestEnd <= fileSize, and the reader
\* never delivers more than fileSize - start bytes.
EndDerivation ==
    /\ (last.op = "RangeRead" /\ reader # NoReader) =>
          LET start  == last.req[1]
              length == last.req[2]
              size   == rangeReadCloser.fileSize
          IN  /\ reader.requestStart = start
              /\ length = -1 => reader.requestEnd = size
              /\ (length >= 0 /\ start + length <= size) =>
                    reader.requestEnd = start + length
              /\ (length >= 0 /\ start + length > size) => reader.requestEnd = size
    /\ reader # NoReader =>
          /\ 0 <= reader.requestStart
          /\ reader.requestStart <= reader.requestEnd
          /\ reader.requestEnd <= rangeReadCloser.fileSize
          /\ Len(delivered) <= rangeReadCloser.fileSize - reader.requestStart
          /\ reader.totalRead <= reader.requestEnd - reader.requestStart

\* a request reaching past the end of the file got a reader ending at the
\* end of the file
EndDerivationWitness ==
    /\ last.op = "RangeRead"
    /\ reader # NoReader
    /\ last.req[1] > 0
    /\ last.req[2] > 0
    /\ last.req[1] + last.req[2] > rangeReadCloser.fileSize
    /\ reader.requestEnd = rangeReadCloser.fileSize

\* C18 - lazy, single-use resolution: RangeRead (like Link and Close)
\* resolves nothing; a Read resolves only when it enters a chunk to open it;
\* every attempt resolves once, and every open of a remote read uses the
\* location of the resolution made in its own attempt, never an earlier one;
\* the reader keeps no location between calls.
LazyFreshResolution ==
    /\ last.op # "Read" => last.resolves = 0 /\ last.opens = 0
    /\ (last.op = "Read" /\ ~last.entered) => last.resolves = 0 /\ last.opens = 0
    /\ (last.op = "Read" /\ last.entered) =>
          LET opensAt == {j \in 1..last.resolves : last.script[j] \in {"openErr", "badStatus", "ok"}}
          IN  /\ last.resolves >= 1
              /\ last.chunk < Len(reader.chunks)
              /\ reader.currentChunk \in {last.chunk, last.chunk + 1}
              /\ last.opens = Cardinality(opensAt)
              /\ Len(last.used) = last.opens
              /\ \A k \in 1..Len(last.used) :
                    /\ last.used[k] \in opensAt
                    /\ k > 1 => last.used[k] > last.used[k - 1]
    /\ reader # NoReader =>
          DOMAIN reader = {"kind", "chunks", "requestStart", "requestEnd", "currentChunk",
                           "currentReader", "currentOffset", "totalRead"}

\* a failed open, a failed resolution, then an open on the third resolution
LazyFreshResolutionWitness ==
    /\ last.op = "Read"
    /\ last.entered
    /\ last.script = <<"openErr", "resErr", "ok">>
    /\ last.used = <<1, 3>>
    /\ last.body = "exact"
    /\ last.chunk = 1

RetrySubRange ==
    [][(last'.op = "Read" /\ last'.body # "none") =>
          LET chunk == reader.chunks[reader.currentChunk + 1]
              lo == IF reader.requestStart > chunk.StartOffset
                    THEN reader.requestStart ELSE chunk.StartOffset
              hi == IF reader.requestEnd < chunk.EndOffset
                    THEN reader.requestEnd ELSE chunk.EndOffset
          IN  /\ last'.range = <<lo - chunk.StartOffset, hi - lo>>
              /\ reader'.totalRead = reader.totalRead + last'.n
              /\ (last'.body = "exact" /\ last'.n > 0) => last'.bytes[1] = lo]_vars

\* a chunk opened again after an error delivers anew a byte that was
\* delivered before the error
RetrySubRangeWitness ==
    /\ last.op = "Read"
    /\ last.body = "exact"
    /\ last.n > 0
    /\ Len(delivered) > last.n
    /\ delivered[Len(delivered) - last.n] >= last.bytes[1]
    /\ reader.totalRead = Len(delivered)

\* C22 - fatal failure is terminal: after a Read has returned the error of an
\* exhausted attempt budget, every later Read returns an error and makes no
\* resolution or open attempt.
FatalIsTerminal ==
    [][(last.op = "Read" /\ last.err \in {"resolveFailed", "openFailed"}
          /\ last'.op = "Read") =>
          /\ last'.err \notin {"nil", "EOF"}
          /\ last'.resolves = 0
          /\ last'.opens = 0]_vars

\* the number of attempts the loop makes against a backend that follows
\* script: up to the first attempt that is granted or lists no file
AttemptsMade(script) ==
    IF \E j \in 1..Len(script) : script[j] \in {"noFiles", "ok"}
    THEN CHOOSE j \in 1..Len(script) :
            /\ script[j] \in {"noFiles", "ok"}
            /\ \A i \in 1..(j - 1) : script[i] \notin {"noFiles", "ok"}
    ELSE Len(script)

\* what C23 says of every chunk-entry but the report of its error: one
\* resolution per attempt, at most 3 attempts, a failed or refused open is
\* one attempt, the refused response is closed
BudgetShared ==
    LET made == AttemptsMade(last.script)
        sentAt == {j \in 1..made : last.script[j] \in {"openErr", "badStatus", "ok"}}
        refusedAt == {j \in 1..made : last.script[j] = "badStatus"}
    IN  /\ made <= 3
        /\ last.resolves = made
        /\ last.opens = Cardinality(sentAt)
        /\ last.rejected = Cardinality(refusedAt)
        /\ last.closedRejected = last.rejected
        /\ openCount = (IF reader.currentReader # Nil /\ ~reader.currentReader.closed
                        THEN 1 ELSE 0)
        /\ last.script[made] = "ok" <=> last.body # "none"
        /\ last.body # "none" => last.err \in {"nil", "EOF", "readFailed"}
        /\ last.body = "none" =>
              /\ last.err \in {"resolveFailed", "openFailed", "noFiles"}
              /\ last.errChunk = last.chunk
              /\ reader.currentReader = Nil

\* C23 as stated - shared attempt budget: resolution and open share one
\* budget of 3 attempts per chunk-entry; a failed open (transport error or a
\* status other than 206 and 200) is one attempt, its response is closed,
\* and it is retried with a new resolution; the loop ends after at most 3
\* attempts with an open remote read or with an error reporting the chunk
\* index and the attempt count.
SharedBudgetCounted ==
    (last.op = "Read" /\ last.entered) =>
        /\ BudgetShared
        /\ last.body = "none" => last.errRetries = last.resolves

\* C23 as amended - as stated, except that the error of an empty file
\* listing reports the chunk index only; the errors of an exhausted budget
\* report the chunk index and the attempt count 3.
SharedBudget ==
    (last.op = "Read" /\ last.entered) =>
        /\ BudgetShared
        /\ last.err \in {"resolveFailed", "openFailed"} =>
              last.errRetries = 3 /\ last.resolves = 3
        /\ last.err = "noFiles" => last.errRetries = 0

\* a refused request, a failed one, then an open on the third resolution
SharedBudgetWitness ==
    /\ last.op = "Read"
    /\ last.entered
    /\ last.script = <<"badStatus", "openErr", "ok">>
    /\ last.rejected = 1
    /\ last.opens = 3
    /\ last.body = "exact"
    /\ last.chunk = 1

\* C24 - an empty file listing is fatal: when the resolution of attempt j
\* succeeds but lists no file, Read returns the error naming the chunk at
\* once: attempt j is the last one made, no wait follows it, no remote read
\* is opened in it, and the reader is left without a remote read.
EmptyListingFatal ==
    (last.op = "Read" /\ last.entered
        /\ \E j \in 1..Len(last.script) : last.script[j] = "noFiles") =>
        LET j == CHOOSE k \in 1..Len(last.script) : last.script[k] = "noFiles"
            sentBefore == {i \in 1..(j - 1) : last.script[i] \in {"openErr", "badStatus"}}
        IN  /\ last.err = "noFiles"
            /\ last.errChunk = reader.currentChunk
            /\ last.resolves = j
            /\ last.sleeps = [k \in 1..(j - 1) |-> k]
            /\ last.opens = Cardinality(sentBefore)
            /\ last.body = "none"
            /\ last.n = 0
            /\ reader.currentReader = Nil
            /\ openCount = 0

\* the second resolution of a chunk-entry listed no file
EmptyListingFatalWitness ==
    /\ last.op = "Read"
    /\ last.entered
    /\ last.script = <<"openErr", "noFiles", "ok">>
    /\ last.err = "noFiles"
    /\ last.resolves = 2
    /\ last.sleeps = <<1>>

\* C25 - delivery cap: a Read returns at most min(len(buffer),
\* requestRemaining) bytes, requestRemaining being requestEnd - requestStart
\* - totalRead before the call; 0 <= totalRead <= requestEnd - requestStart
\* and 0 <= currentChunk <= number of selected chunks always; totalRead
\* never decreases.
DeliveryCap ==
    /\ [](reader # NoReader =>
             /\ 0 <= reader.totalRead
             /\ reader.totalRead <= reader.requestEnd - reader.requestStart
             /\ 0 <= reader.currentChunk
             /\ reader.currentChunk <= Len(reader.chunks))
    /\ [][(reader # NoReader /\ reader' # NoReader) =>
             reader'.totalRead >= reader.totalRead]_vars
    /\ [][last'.op = "Read" =>
             /\ 0 <= last'.n
             /\ last'.n <= reader.requestEnd - reader.requestStart - reader.totalRead
             /\ last'.rres # "none" => (0 <= last'.buf /\ last'.n <= last'.buf)
             /\ last'.n = Len(last'.bytes)
             /\ reader'.totalRead = reader.totalRead + last'.n]_vars

\* a Read with a buffer of two bytes got the one byte the request still
\* lacked, from a remote read that had more to give
DeliveryCapWitness ==
    /\ last.op = "Read"
    /\ last.buf = 2
    /\ last.n = 1
    /\ last.rres = "more"
    /\ reader.totalRead = reader.requestEnd - reader.requestStart
    /\ reader.currentReader # Nil
    /\ reader.currentReader.pos < reader.currentReader.end

\* C26 - per-chunk delivery bound: the bytes delivered from one remote read
\* never exceed the length chunkEnd - chunkStart of the sub-range asked of
\* that chunk, also when the response is the full content.
PerChunkBound ==
    (reader # NoReader /\ reader.currentReader # Nil) =>
        LET h == reader.currentReader
            chunk == reader.chunks[h.chunk + 1]
        IN  h.pos - h.from <= chunkEnd(reader, chunk) - chunkStart(reader, chunk)

\* C27 - the error for no overlapping chunk is kept for malformed requests:
\* over a chunk list that covers [0, fileSize) without gap, a request with
\* 0 <= start < fileSize and a length that is 0 or more, or the sentinel -1,
\* gets a reader and no error.
NoChunksOnlyMalformed ==
    LET c  == rangeReadCloser
        cs == c.chunks
    IN  (/\ last.op = "RangeRead"
         /\ Len(cs) >= 1
         /\ cs[1].StartOffset = 0
         /\ cs[Len(cs)].EndOffset = c.fileSize
         /\ \A i \in 1..(Len(cs) - 1) : cs[i].EndOffset = cs[i + 1].StartOffset
         /\ 0 <= last.req[1]
         /\ last.req[1] < c.fileSize
         /\ last.req[2] >= -1) =>
            /\ last.err = "nil"
            /\ reader # NoReader

\* C28 - the chunked upload is strictly sequential: pages are created and
\* uploads made for the chunk indices 0, 1, 2, ... in that order, each once;
\* the page of a chunk is created only when the upload of every chunk before
\* it has returned without error, so at most one chunk is under way; a
\* failure at one chunk leaves the later ones untouched.
UploadSequential ==
    putLast.via = "putChunkedFile" =>
        LET P == putLast.pages
            U == putLast.uploads
            count == chunkCount(putLast.fileSize, putLast.maxChunkSize)
        IN  /\ \A k \in 1..Len(P) : P[k] = k - 1
            /\ \A k \in 1..Len(U) : U[k] = k - 1
            /\ Len(P) - Len(U) \in {0, 1}
            /\ Len(P) <= count
            /\ Len(P) = Len(U) + 1 <=> putLast.err = "upload"
            /\ putLast.err \in {"nil", "saveChunks"} <=> Len(U) = count

\* the upload of the second of three chunks failed: the first chunk is
\* stored, a page exists for the second, the third was never begun
UploadSequentialWitness ==
    /\ putLast.via = "putChunkedFile"
    /\ putLast.err = "upload"
    /\ chunkCount(putLast.fileSize, putLast.maxChunkSize) = 3
    /\ putLast.pages = <<0, 1>>
    /\ putLast.uploads = <<0>>

\* the attempts of the chunk-entry of the last Read that failed and may be
\* retried: the resolution or the open gave an error
FailedAttempts ==
    Cardinality({j \in 1..AttemptsMade(last.script) :
                    last.script[j] \notin {"noFiles", "ok"}})

\* C29 as stated - backoff of 1, 2 and 3 seconds: every failed attempt of a
\* chunk-entry is followed by a wait, the k-th one by a wait of k seconds.
BackoffAfterEveryFailure ==
    (last.op = "Read" /\ last.entered) =>
        last.sleeps = [k \in 1..FailedAttempts |-> k]

\* C29 - backoff: in one chunk-entry the wait between the k-th failed
\* attempt and the attempt after it is k seconds, whether the resolution or
\* the open failed; with 3 attempts the waits are 1 and 2 seconds at most.
\* No wait precedes the first attempt, none follows the third, and none
\* follows an attempt that is granted or finds no file.
Backoff ==
    /\ (last.op = "Read" /\ last.entered) =>
           last.sleeps = [k \in 1..min(FailedAttempts, maxRetries - 1) |-> k]
    /\ (last.op = "Read" /\ ~last.entered) => last.sleeps = <<>>

\* a chunk-entry whose resolution failed, then whose open failed, then that
\* was granted: it waited 1 second, then 2
BackoffWitness ==
    /\ last.op = "Read"
    /\ last.entered
    /\ last.script = <<"resErr", "openErr", "ok">>
    /\ last.sleeps = <<1, 2>>

\* C30 - the attempt budget belongs to the chunk-entry and failures of the
\* remote read are not counted: a Read that enters a chunk makes the
\* attempts its backend calls for, up to 3, whatever the entries before it
\* used, also when it enters the chunk again after a read failure; and a
\* chunk-entry whose remote read fails before it gives a byte leaves the
\* reader as it was before the entry (but for currentOffset, set on entry),
\* so the same chunk can be entered again without end.
FreshBudget ==
    /\ [][(last'.op = "Read" /\ last'.entered) =>
             /\ last'.resolves = AttemptsMade(last'.script)
             /\ last'.resolves <= maxRetries
             /\ (\A k \in 1..maxRetries : last'.script[k] \in Retryable) =>
                   (last'.resolves = maxRetries /\ last'.errRetries = maxRetries)
             /\ (last.op = "Read" /\ last.rres = "fail") =>
                   last'.chunk = reader.currentChunk]_vars
    /\ [][(last'.op = "Read" /\ last'.entered /\ last'.rres = "fail"
              /\ last'.n = 0) =>
             /\ reader.currentReader = Nil
             /\ reader' = [reader EXCEPT
                              !.currentOffset =
                                 chunkStart(reader, reader.chunks[reader.currentChunk + 1])]]_vars

\* the first chunk entered again after its remote read had given a byte and
\* failed: the entry used all 3 attempts, the third one was granted, and its
\* remote read failed in turn
FreshBudgetWitness ==
    /\ last.op = "Read"
    /\ last.entered
    /\ last.chunk = 0
    /\ last.resolves = maxRetries
    /\ last.body # "none"
    /\ last.rres = "fail"
    /\ last.n = 0
    /\ reader.totalRead >= 1
    /\ reader.currentChunk = 0
    /\ reader.currentReader = Nil

\* C32 - after any sequence of Put calls, whatever their outcome, every
\* file record that is chunked and not deleted has chunk records that start
\* at 0, follow one another without gap and end at the size of the file.
ChunkedFilesComplete ==
    \A id \in 1..Len(files) :
        (files[id].IsChunked /\ ~files[id].Deleted) =>
            LET cs == ChunksOf(id)
            IN  /\ Len(cs) >= 1
                /\ cs[1].StartOffset = 0
                /\ cs[Len(cs)].EndOffset = files[id].Size
                /\ \A i \in 1..(Len(cs) - 1) : cs[i].EndOffset = cs[i + 1].StartOffset

\* the reader has returned end-of-data with the whole request delivered
ReadComplete ==
    /\ reader # NoReader
    /\ last.op = "Read"
    /\ last.err = "EOF"
    /\ reader.totalRead = reader.requestEnd - reader.requestStart

\* the chunk indices 0 .. n-1 in order
EachOnce(n) == [k \in 1..n |-> k - 1]

\* C33 as stated - liveness of a read: against a backend that grants some
\* attempt of every chunk-entry and whose remote reads give their sub-range
\* and end, a caller that keeps calling Read with a buffer that is not empty
\* gets end-of-data in the end, with the whole request delivered and every
\* selected chunk entered exactly once.
ReadTerminatesAllEntered ==
    (reader # NoReader) ~> (ReadComplete /\ entries = EachOnce(Len(reader.chunks)))

\* C33 - liveness of a read: under the same conditions the caller gets
\* end-of-data in the end with the whole request delivered; every selected
\* chunk has then been entered exactly once when the request is of one byte
\* or more, and no chunk has been entered when the request is empty.
ReadTerminates ==
    /\ (reader # NoReader /\ reader.requestEnd > reader.requestStart)
          ~> (ReadComplete /\ entries = EachOnce(Len(reader.chunks)))
    /\ (reader # NoReader /\ reader.requestEnd = reader.requestStart)
          ~> (ReadComplete /\ entries = <<>>)

\* a request over two chunks read to the end
ReadTerminatesWitness ==
    /\ ReadComplete
    /\ Len(reader.chunks) = 2
    /\ entries = <<0, 1>>
    /\ reader.totalRead >= 2

\* C34 - remote-read resource discipline: at most one remote read opened by
\* the reader is open, and it is the one the reader holds; a Read whose
\* remote read ends or fails closes it and lets go of it; every response
\* refused for its status is closed in the attempt that got it; once Close
\* has returned no remote read of the reader is open.
ResourceDiscipline ==
    /\ [](/\ openCount \in {0, 1}
          /\ openCount = 1 <=>
                (reader # NoReader /\ reader.currentReader # Nil
                   /\ ~reader.currentReader.closed))
    /\ [][(last'.op = "Read" /\ last'.rres \in {"eof", "fail"}) =>
             /\ last'.closes = 1
             /\ reader'.currentReader = Nil
             /\ openCount' = 0]_vars
    /\ [][last'.op = "Read" => last'.closedRejected = last'.rejected]_vars
    /\ [][last'.op = "Close" => openCount' = 0]_vars

\* a chunk-entry that had a response refused for its status and closed, then
\* was granted a remote read, which is the only one open
ResourceDisciplineWitness ==
    /\ last.op = "Read"
    /\ last.rejected >= 1
    /\ last.closedRejected = last.rejected
    /\ last.body # "none"
    /\ reader.currentReader # Nil
    /\ openCount = 1

\* C35 - every range request the reader sends is well formed: when a chunk
\* is entered, 0 <= chunkStart < chunkEnd <= chunk.EndOffset -
\* chunk.StartOffset, so the length asked for is positive and the header is
\* bytes=a-b with a <= b inside the chunk, never the open-ended bytes=a-.
WellFormedRange ==
    (last.op = "Read" /\ last.entered) =>
        LET chunk == reader.chunks[last.chunk + 1]
            a == chunkStart(reader, chunk)
            b == chunkEnd(reader, chunk)
            hdr == rangeHeader(a, b - a)
        IN  /\ 0 <= a
            /\ a < b
            /\ b <= chunk.EndOffset - chunk.StartOffset
            /\ hdr = <<a, b - 1>>
            /\ hdr[2] # -1
            /\ last.body # "none" =>
                  /\ last.range = <<a, b - a>>
                  /\ last.header = hdr

\* a remote read opened on a sub-range that starts inside its chunk
WellFormedRangeWitness ==
    /\ last.op = "Read"
    /\ last.entered
    /\ last.body # "none"
    /\ last.header[1] > 0
    /\ last.header[2] >= last.header[1]

\* C37 - Put is a no-op for a name that exists: when the directory holds a
\* file of that name that is not deleted, Put returns the object of that
\* file (its id and its size), creates no page, uploads nothing and inserts
\* no file or chunk record, whatever the size of the new input.
PutExistingNoop ==
    [][putLast'.via = "existing" =>
          \/ putLast'.err = "checkExisting"
          \/ /\ putLast'.err = "nil"
             /\ putLast'.obj \in 1..Len(files)
             /\ ~files[putLast'.obj].Deleted
             /\ putLast'.objSize = files[putLast'.obj].Size
             /\ putLast'.pages = <<>>
             /\ putLast'.uploads = <<>>
             /\ putLast'.chunks = <<>>
             /\ files' = files
             /\ dbChunks' = dbChunks]_vars

\* Put of an input that would be chunked, under the name of a stored file
\* of another size: the stored file's object is returned
PutExistingNoopWitness ==
    /\ putLast.via = "existing"
    /\ putLast.err = "nil"
    /\ needsChunking(putLast.fileSize)
    /\ putLast.objSize # putLast.fileSize
    /\ putLast.objSize = files[putLast.obj].Size

\* C38 - the two RangeRead agree on requests inside the file: for a request
\* with 0 <= start < fileSize and the sentinel length, or start + length <=
\* fileSize, the RangeRead of drivers/notion/types.go returns what the later
\* RangeRead returned: an error or none alike and, without error, a
\* reader with the same chunk list, requestStart and requestEnd.
RangeReadsAgree ==
    (/\ last.op = "RangeRead"
     /\ 0 <= last.req[1]
     /\ last.req[1] < rangeReadCloser.fileSize
     /\ \/ last.req[2] = -1
        \/ last.req[1] + last.req[2] <= rangeReadCloser.fileSize) =>
        LET old == RangeReadDriver(rangeReadCloser,
                                   [Start |-> last.req[1], Length |-> last.req[2]])
        IN  /\ (old.err = "nil") <=> (last.err = "nil")
            /\ old.err = last.err
            /\ old.reader = reader

\* a request with the sentinel length, from inside the file to its end, that
\* selects two chunks or more
RangeReadsAgreeWitness ==
    /\ last.op = "RangeRead"
    /\ last.req[1] > 0
    /\ last.req[2] = -1
    /\ reader # NoReader
    /\ Len(reader.chunks) >= 2
    /\ RangeReadDriver(rangeReadCloser,
                       [Start |-> last.req[1], Length |-> last.req[2]]).reader = reader

\* C39 as stated - no read through a missing handle: whenever Read reads
\* from currentReader, currentReader is a remote read that is open; the
\* attempt loop is left by an error or with a remote read opened.
HandleAlwaysOpen ==
    /\ [](last.op = "Read" => last.err # "panic")
    /\ [][(last'.op = "Read" /\ last'.rres # "none") =>
             IF last'.entered
             THEN last'.body # "none"
             ELSE reader.currentReader # Nil /\ ~reader.currentReader.closed]_vars

\* C39 - no read through a missing handle: whenever Read reads from
\* currentReader, currentReader is not nil; it is a remote read that is
\* open unless Close was called on the reader before, and the read of a
\* closed one fails without a byte.  The attempt loop is left by an error or
\* with a remote read opened, never with none.
NoMissingHandle ==
    /\ [](last.op = "Read" => last.err # "panic")
    /\ []((last.op = "Read" /\ last.entered) =>
             \/ last.body # "none" /\ last.rres # "none"
             \/ /\ last.body = "none"
                /\ last.rres = "none"
                /\ last.n = 0
                /\ last.err \in {"resolveFailed", "openFailed", "noFiles"})
    /\ [][(last'.op = "Read" /\ last'.rres # "none") =>
             IF last'.entered
             THEN reader.currentReader = Nil /\ last'.body # "none"
             ELSE /\ reader.currentReader # Nil
                  /\ reader.currentReader.closed =>
                        (last'.rres = "fail" /\ last'.n = 0)]_vars
    /\ [][(reader # NoReader /\ reader.currentReader # Nil
              /\ ~reader.currentReader.closed
              /\ reader'.currentReader # Nil /\ reader'.currentReader.closed) =>
             last'.op = "Close"]_vars

\* the attempt loop left at its third and last attempt with a remote read,
\* which the same call read from
NoMissingHandleWitness ==
    /\ last.op = "Read"
    /\ last.entered
    /\ last.resolves = 3
    /\ last.script[3] = "ok"
    /\ last.body # "none"
    /\ last.rres = "more"
    /\ last.n >= 1

\* the directories of S and the directories under them that are reached
\* through directories that are not deleted
RECURSIVE LiveUnder(_, _)
LiveUnder(ds, S) ==
    LET T == S \cup {d \in 1..Len(ds) : ~ds[d].Deleted /\ ds[d].ParentID \in S}
    IN  IF T = S THEN S ELSE LiveUnder(ds, T)

\* C31 - soft-delete cascade: when Remove of a directory returns without
\* error, the directory, the directories of its subtree of descendants that
\* were not deleted, and every file directly in one of them are marked
\* deleted; no other directory or file record changes, no record changes
\* anything but its deleted flag, and no chunk record is touched.
RemoveCascade ==
    [][(last'.op = "Remove" /\ last'.isDir /\ last'.err = "nil") =>
          LET D == LiveUnder(dirs, {last'.obj})
          IN  /\ Len(dirs') = Len(dirs)
              /\ Len(files') = Len(files)
              /\ \A d \in 1..Len(dirs) :
                    dirs'[d] = IF d \in D THEN [dirs[d] EXCEPT !.Deleted = TRUE]
                               ELSE dirs[d]
              /\ \A f \in 1..Len(files) :
                    files'[f] = IF files[f].DirectoryID \in D
                                THEN [files[f] EXCEPT !.Deleted = TRUE]
                                ELSE files[f]
              /\ dbChunks' = dbChunks
              /\ putLast' = putLast]_vars

\* a directory removed whose sub-directory held a file, now deleted, while
\* a file outside the directory is not
RemoveCascadeWitness ==
    /\ last.op = "Remove"
    /\ last.isDir
    /\ last.err = "nil"
    /\ \E f \in 1..Len(files) :
          /\ files[f].Deleted
          /\ dirs[files[f].DirectoryID].Deleted
          /\ dirs[files[f].DirectoryID].ParentID = last.obj
    /\ \E g \in 1..Len(files) :
          /\ ~files[g].Deleted
          /\ files[g].DirectoryID = RootID

\* what a range reader over the chunk list of a file is built from: the
\* offsets and the remote reference of each chunk, in order
ChunkLayout(fileID) ==
    LET cs == ChunksOf(fileID)
    IN  [i \in 1..Len(cs) |-> <<cs[i].StartOffset, cs[i].EndOffset, cs[i].NotionPageID>>]

\* C36 - Copy preserves readability of chunked files: after a Copy without
\* error, every new record made from a chunked file that was not deleted is
\* marked chunked with the chunk size of its source, and the chunk list Link
\* reads for the copy (offsets and remote references, in order) is the
\* list it reads for the source.
CopyKeepsChunked ==
    (last.op = "Copy" /\ last.err = "nil") =>
        \A i \in 1..Len(last.copies) :
            LET src == last.copies[i][1]
                new == last.copies[i][2]
            IN  files[src].IsChunked =>
                    /\ files[new].IsChunked
                    /\ files[new].ChunkSize = files[src].ChunkSize
                    /\ ChunkLayout(new) = ChunkLayout(src)
====
